---- MODULE Spec2Model ----
(***************************************************************************)
(* EVA (Epistemically Verified AI): the estimation-and-decision pipeline.  *)
(*                                                                         *)
(* The repository holds two variants of the pipeline:                      *)
(*   "logistic"        src/eva/      additive sampling rule, logistic      *)
(*                                   scorer, boolean per-output verifiers  *)
(*   "multiplicative"  src/src/eva/  canonical sampling rule, clamped      *)
(*                                   product scorer, weighted verifiers    *)
(*                                                                         *)
(* Real numbers are exact rationals <<n, d>> (d > 0, lowest terms).  The   *)
(* transcendental functions (exp, log, tanh) are fixed-point series at     *)
(* resolution 1/ONE.  Floating-point rounding is outside the model.        *)
(***************************************************************************)
EXTENDS Integers, Sequences, FiniteSets, TLC

(* ------------------------------ bounds -------------------------------- *)

\* k_min and k_max of the orchestrator are drawn from 0..MaxK
MaxK == 2
\* at most this many verifiers are configured in the orchestrator
MaxVerifiers == 1
\* scores handed to the pure functions lie on the grid n/Q
Q == 4
\* k_min and k_max handed to adaptive_k directly are drawn from 0..MaxKFn
MaxKFn == 3
\* weights handed to the pure functions are drawn from 0..MaxW
MaxW == 2
\* aggregate_verification is handed at most this many scores directly
MaxScores == 2
\* resolution of the fixed-point series
ONE == 10000

VARIABLES
    cfg,            \* the EVA object's configuration, fixed by __init__
    pc,             \* the step EVA.run executes next
    outputs,        \* run's list of samples of the prompt
    stability,      \* S
    difficulty,     \* D
    k,              \* the sample count adaptive_k returned
    scores,         \* the verifier scores of the verification step
    verification,   \* V
    reliability,    \* R
    result,         \* <<>> until run returns, then <<the returned dict>>
    error,          \* the exception that left run, "none" without one
    llm_calls,      \* calls of llm_fn made so far
    batch_ok,       \* calls of the current batch that returned before one raised
    returned,       \* the set of texts llm_fn has returned
    steps,          \* the steps run has completed, in order
    fn,             \* the pure function applied on its own
    args,           \* its arguments
    ret             \* its return value

runvars == <<pc, outputs, stability, difficulty, k, scores, verification,
             reliability, result, error, llm_calls, batch_ok, returned, steps>>
fnvars == <<fn, args, ret>>
vars == <<cfg, runvars, fnvars>>

(* ---------------------------- rationals ------------------------------- *)

Abs(x) == IF x < 0 THEN -x ELSE x
Min(x, y) == IF x <= y THEN x ELSE y
Max(x, y) == IF x >= y THEN x ELSE y

RECURSIVE GCD(_, _)
GCD(a, b) == IF b = 0 THEN a ELSE GCD(b, a % b)

\* the rational n/d (d # 0) in lowest terms with a positive denominator
Rat(n, d) ==
    LET g == GCD(Abs(n), Abs(d))
        s == IF d < 0 THEN -1 ELSE 1
    IN  <<(s * n) \div g, (s * d) \div g>>

RInt(n) == <<n, 1>>
RAdd(a, b) == Rat(a[1] * b[2] + b[1] * a[2], a[2] * b[2])
RSub(a, b) == Rat(a[1] * b[2] - b[1] * a[2], a[2] * b[2])
RMul(a, b) == Rat(a[1] * b[1], a[2] * b[2])
RDiv(a, b) == Rat(a[1] * b[2], a[2] * b[1])
RLe(a, b) == a[1] * b[2] <= b[1] * a[2]
RLt(a, b) == a[1] * b[2] < b[1] * a[2]
RMin(a, b) == IF RLe(a, b) THEN a ELSE b
RMax(a, b) == IF RLe(a, b) THEN b ELSE a
RFloor(a) == a[1] \div a[2]
RCeil(a) == -((-a[1]) \div a[2])
\* Python's int(): truncation toward zero
RTrunc(a) == IF a[1] >= 0 THEN RFloor(a) ELSE RCeil(a)

RECURSIVE RSum(_)
RSum(s) == IF s = <<>> THEN RInt(0) ELSE RAdd(Head(s), RSum(Tail(s)))

RECURSIVE RMinSeq(_)
RMinSeq(s) == IF Len(s) = 1 THEN s[1] ELSE RMin(s[1], RMinSeq(Tail(s)))

RECURSIVE SeqsUpTo(_, _)
SeqsUpTo(S, n) ==
    IF n = 0 THEN {<<>>}
    ELSE LET shorter == SeqsUpTo(S, n - 1)
         IN  shorter \cup {Append(s, x) : s \in {t \in shorter : Len(t) = n - 1}, x \in S}

SeqsOfLen(S, n) == {s \in SeqsUpTo(S, n) : Len(s) = n}

Ok(v) == [err |-> "none", val |-> v]
Raise(e) == [err |-> e, val |-> RInt(0)]

(* ----------------------- fixed-point series --------------------------- *)

\* sum of the Taylor series of exp(n/d) for n/d >= 0, scaled by ONE
RECURSIVE ExpSeries(_, _, _, _, _)
ExpSeries(n, d, i, term, acc) ==
    IF term = 0 THEN acc
    ELSE ExpSeries(n, d, i + 1, (term * n) \div (d * i), acc + term)

\* math.exp(x) scaled by ONE
Exp(x) ==
    IF x[1] >= 0 THEN ExpSeries(x[1], x[2], 1, ONE, 0)
    ELSE (ONE * ONE) \div ExpSeries(-x[1], x[2], 1, ONE, 0)

\* natural logarithm of n/d for n/d >= 1, scaled by ONE:
\* 2 * sum_k u^(2k+1)/(2k+1) with u = (n-d)/(n+d)
RECURSIVE LnSeries(_, _, _, _, _)
LnSeries(n, d, i, pow, acc) ==
    IF pow = 0 THEN 2 * acc
    ELSE LnSeries(n, d, i + 2, (pow * (n - d) * (n - d)) \div ((n + d) * (n + d)),
                  acc + pow \div i)

Ln(x) == LnSeries(x[1], x[2], 1, (ONE * (x[1] - x[2])) \div (x[1] + x[2]), 0)

\* np.tanh(e) for a fixed-point e >= 0, scaled by ONE
Tanh(e) ==
    LET E2 == Exp(Rat(2 * e, ONE))
    IN  ((E2 - ONE) * ONE) \div (E2 + ONE)

(* -------------------- similarity provider (external) ------------------ *)

\* sentence embedding + cosine similarity: identical texts score 1, two
\* different texts score s, the provider's value for that pair
Sim(x, y, s) == IF x = y THEN RInt(1) ELSE s

\* the strictly-upper-triangular entries of the similarity matrix, row by row
RECURSIVE UpperFrom(_, _, _, _)
UpperFrom(o, s, i, j) ==
    IF i >= Len(o) THEN <<>>
    ELSE IF j > Len(o) THEN UpperFrom(o, s, i + 1, i + 2)
    ELSE <<Sim(o[i], o[j], s)>> \o UpperFrom(o, s, i, j + 1)

Upper(o, s) == UpperFrom(o, s, 1, 2)

(* ------------------- src/eva: the logistic variant -------------------- *)

\* StabilityEstimator.compute: mean pairwise similarity, 0.0 below 2 outputs
stability_mean(outs, s) ==
    IF Len(outs) < 2 THEN RInt(0)
    ELSE LET u == Upper(outs, s) IN RDiv(RSum(u), RInt(Len(u)))

\* number of perturbed prompts of DifficultyEstimator._perturb_prompt
NPerturb == 5

\* faulty variant: 1 - mean similarity without the clip to [0, 1]
difficulty_perturbation_unclipped(outs, s) ==
    LET u == Upper(outs, s)
    IN  RSub(RInt(1), IF Len(u) > 0 THEN RDiv(RSum(u), RInt(Len(u))) ELSE RInt(0))

\* DifficultyEstimator.compute on the outputs of the perturbed prompts
difficulty_perturbation(outs, s) ==
    LET u == Upper(outs, s)
        mean_similarity == IF Len(u) > 0 THEN RDiv(RSum(u), RInt(Len(u))) ELSE RInt(0)
    IN  RMax(RInt(0), RMin(RInt(1), RSub(RInt(1), mean_similarity)))

DefaultLam == 4
DefaultMu == 4

\* faulty variant: instability taken as 1 + S
adaptive_k_additive_sign(S, D, k_min, k_max, lam, mu) ==
    LET raw == k_min + RCeil(RAdd(RMul(lam, RAdd(RInt(1), S)), RMul(mu, D)))
    IN  IF raw < k_min THEN k_min
        ELSE IF raw > k_max THEN k_max
        ELSE raw

\* adaptive_k, additive rule: k_min + ceil(lam*(1 - S) + mu*D), clamped
adaptive_k_additive(S, D, k_min, k_max, lam, mu) ==
    LET raw == k_min + RCeil(RAdd(RMul(lam, RSub(RInt(1), S)), RMul(mu, D)))
    IN  IF raw < k_min THEN k_min
        ELSE IF raw > k_max THEN k_max
        ELSE raw

\* 1 / (1 + exp(-x))
sigmoid(x) == Rat((ONE * ONE) \div (ONE + Exp(RSub(RInt(0), x))), ONE)

\* faulty variant: the difficulty term added instead of subtracted
LinearSignalAddsDifficulty(S, V, D, alpha, beta, gamma) ==
    RAdd(RAdd(RMul(alpha, S), RMul(beta, V)), RMul(gamma, D))

\* the linear reliability signal alpha*S + beta*V - gamma*D
LinearSignal(S, V, D, alpha, beta, gamma) ==
    RSub(RAdd(RMul(alpha, S), RMul(beta, V)), RMul(gamma, D))

compute_reliability_logistic(S, V, D, alpha, beta, gamma) ==
    sigmoid(LinearSignal(S, V, D, alpha, beta, gamma))

\* number of TRUE entries of a sequence of booleans
RECURSIVE CountTrue(_)
CountTrue(b) == IF b = <<>> THEN 0 ELSE (IF Head(b) THEN 1 ELSE 0) + CountTrue(Tail(b))

\* EVA._verification_score: verdicts[i][j] is verifier j's verdict on output i
RECURSIVE PassFractions(_, _)
PassFractions(verdicts, nver) ==
    IF verdicts = <<>> THEN <<>>
    ELSE <<Rat(CountTrue(Head(verdicts)), nver)>> \o PassFractions(Tail(verdicts), nver)

verification_score(verdicts, nver) ==
    IF Len(verdicts) = 0 THEN Raise("ZeroDivisionError")
    ELSE Ok(RDiv(RSum(PassFractions(verdicts, nver)), RInt(Len(verdicts))))

(* --------------- src/src/eva: the multiplicative variant -------------- *)

\* p * log(p) for a similarity clipped into [1e-6, 1], scaled by ONE
PLogP(p) ==
    IF RLe(RInt(1), p) THEN 0
    ELSE IF RLe(p, Rat(1, 1000000)) THEN -((ONE * 138) \div 10000000)
    ELSE -((p[1] * Ln(Rat(p[2], p[1]))) \div p[2])

RECURSIVE SumPLogP(_)
SumPLogP(u) == IF u = <<>> THEN 0 ELSE PLogP(Head(u)) + SumPLogP(Tail(u))

\* StabilityEstimator.compute: mean similarity damped by an entropy penalty
stability_entropy(outs, s) ==
    IF Len(outs) < 2 THEN RInt(1)
    ELSE LET upper == Upper(outs, s)
             mean_sim == RDiv(RSum(upper), RInt(Len(upper)))
             entropy == (-SumPLogP(upper)) \div Len(upper)
             entropy_penalty == Tanh(entropy)
         IN  RMax(RInt(0), RMul(mean_sim, Rat(ONE - entropy_penalty, ONE)))

\* DifficultyEstimator.samples
samples == 5

\* faulty variant: the first distinct output is not counted
difficulty_repetition_extra_only(outs) ==
    LET unique == Cardinality({outs[i] : i \in 1..Len(outs)})
    IN  RMin(RInt(1), Rat(unique - 1, samples))

\* DifficultyEstimator.compute on the outputs of the repeated prompt
difficulty_repetition(outs) ==
    LET unique == Cardinality({outs[i] : i \in 1..Len(outs)})
    IN  RMin(RInt(1), Rat(unique, samples))

\* adaptive_k, canonical rule: int(k_min + alpha*(k_max - k_min)), clamped
adaptive_k(S, D, k_min, k_max) ==
    LET uncertainty == RAdd(RSub(RInt(1), S), D)
        alpha == RDiv(uncertainty, RInt(2))
        raw == RTrunc(RAdd(RInt(k_min), RMul(alpha, RInt(k_max - k_min))))
    IN  Max(k_min, Min(raw, k_max))

\* sum(s * w for s, w in zip(scores, weights)): zip stops at the shorter one
RECURSIVE ZipDot(_, _)
ZipDot(ss, ws) ==
    IF ss = <<>> \/ ws = <<>> THEN RInt(0)
    ELSE RAdd(RMul(Head(ss), Head(ws)), ZipDot(Tail(ss), Tail(ws)))

\* faulty variant: the weighted mean alone, without the hard minimum
aggregate_verification_mean_only(verifier_scores, verifier_weights) ==
    IF verifier_scores = <<>> THEN Ok(RInt(1))
    ELSE IF RSum(verifier_weights)[1] = 0 THEN Raise("ZeroDivisionError")
    ELSE Ok(RDiv(ZipDot(verifier_scores, verifier_weights), RSum(verifier_weights)))

\* faulty variant: weights that sum to zero are treated like an empty verifier list
aggregate_verification_neutral(verifier_scores, verifier_weights) ==
    IF verifier_scores = <<>> \/ RSum(verifier_weights)[1] = 0 THEN Ok(RInt(1))
    ELSE Ok(RAdd(RMul(Rat(1, 2), RDiv(ZipDot(verifier_scores, verifier_weights),
                                      RSum(verifier_weights))),
                 RMul(Rat(1, 2), RMinSeq(verifier_scores))))

aggregate_verification(verifier_scores, verifier_weights) ==
    IF verifier_scores = <<>> THEN Ok(RInt(1))
    ELSE IF RSum(verifier_weights)[1] = 0 THEN Raise("ZeroDivisionError")
    ELSE LET weighted_mean == RDiv(ZipDot(verifier_scores, verifier_weights),
                                   RSum(verifier_weights))
             hard_min == RMinSeq(verifier_scores)
         IN  Ok(RAdd(RMul(Rat(1, 2), weighted_mean), RMul(Rat(1, 2), hard_min)))

\* max(0.0, min(1.0, S * V * (1.0 - D)))
compute_reliability(S, V, D) ==
    RMax(RInt(0), RMin(RInt(1), RMul(RMul(S, V), RSub(RInt(1), D))))

(* ================== the pure functions on their own =================== *)

Grid01 == {Rat(n, Q) : n \in 0..Q}
GridS == {Rat(n, Q) : n \in (-Q)..Q}
\* the grid and the two scores of the aggregation example, 0.9 and 0.3
ScoreGrid == Grid01 \cup {Rat(9, 10), Rat(3, 10)}
WeightGrid == {RInt(w) : w \in 0..MaxW}
SignedWeightGrid == {RInt(w) : w \in (-1)..MaxW}

Pending == [err |-> "pending", val |-> RInt(0)]

FnInputs(f) ==
    CASE f = "adaptive_k_additive" ->
           [S : GridS, D : Grid01, k_min : 0..MaxKFn, k_max : 0..MaxKFn,
            lam : WeightGrid, mu : WeightGrid]
      [] f = "adaptive_k" ->
           [S : GridS, D : Grid01, k_min : 0..MaxKFn, k_max : 0..MaxKFn]
      [] f = "aggregate_verification" ->
           UNION {[scores : SeqsOfLen(ScoreGrid, n), weights : SeqsOfLen(WeightGrid, n)]
                  : n \in 0..MaxScores}
      [] f = "compute_reliability" ->
           [S : GridS, V : Grid01, D : Grid01]
      [] f = "compute_reliability_logistic" ->
           [S : GridS, V : Grid01, D : Grid01, alpha : SignedWeightGrid,
            beta : SignedWeightGrid, gamma : SignedWeightGrid]

Fns == {"adaptive_k_additive", "adaptive_k", "aggregate_verification",
        "compute_reliability", "compute_reliability_logistic"}

IdleCfg == [variant |-> "none", k_min |-> 0, k_max |-> 0, threshold |-> RInt(0),
            alpha |-> RInt(0), beta |-> RInt(0), gamma |-> RInt(0),
            verifiers |-> <<>>, sim |-> RInt(0)]

RunIdle ==
    /\ pc = "idle" /\ outputs = <<>> /\ stability = RInt(0) /\ difficulty = RInt(0)
    /\ k = 0 /\ scores = <<>> /\ verification = RInt(0) /\ reliability = RInt(0)
    /\ result = <<>> /\ error = "none" /\ llm_calls = 0 /\ batch_ok = 0
    /\ returned = {} /\ steps = <<>>

FnInit ==
    /\ cfg = IdleCfg
    /\ RunIdle
    /\ fn \in Fns
    /\ args \in FnInputs(fn)
    /\ ret = Pending

ApplyAdaptiveKAdditive ==
    /\ fn = "adaptive_k_additive" /\ ret.err = "pending"
    /\ ret' = Ok(adaptive_k_additive(args.S, args.D, args.k_min, args.k_max,
                                     args.lam, args.mu))
    /\ UNCHANGED <<cfg, runvars, fn, args>>

ApplyAdaptiveK ==
    /\ fn = "adaptive_k" /\ ret.err = "pending"
    /\ ret' = Ok(adaptive_k(args.S, args.D, args.k_min, args.k_max))
    /\ UNCHANGED <<cfg, runvars, fn, args>>

ApplyAggregate ==
    /\ fn = "aggregate_verification" /\ ret.err = "pending"
    /\ ret' = aggregate_verification(args.scores, args.weights)
    /\ UNCHANGED <<cfg, runvars, fn, args>>

ApplyReliability ==
    /\ fn = "compute_reliability" /\ ret.err = "pending"
    /\ ret' = Ok(compute_reliability(args.S, args.V, args.D))
    /\ UNCHANGED <<cfg, runvars, fn, args>>

ApplyReliabilityLogistic ==
    /\ fn = "compute_reliability_logistic" /\ ret.err = "pending"
    /\ ret' = Ok(compute_reliability_logistic(args.S, args.V, args.D,
                                              args.alpha, args.beta, args.gamma))
    /\ UNCHANGED <<cfg, runvars, fn, args>>

FnNext ==
    \/ ApplyAdaptiveKAdditive
    \/ ApplyAdaptiveK
    \/ ApplyAggregate
    \/ ApplyReliability
    \/ ApplyReliabilityLogistic

FnSpec == FnInit /\ [][FnNext]_vars

(* ========================= the orchestrator =========================== *)

\* the texts llm_fn may return
Texts == {"a", "b"}
\* the provider's similarity of the two different texts
Sims == {RInt(-1), Rat(1, 4), Rat(3, 4)}
\* thresholds: two the scorers can reach or miss and one above their range
Thresholds == {Rat(4, 5), RInt(1), Rat(6, 5)}
\* alpha, beta, gamma: the default 1.0 and a negative weight
ScorerWeights == {RInt(-1), RInt(1)}
\* Verifier.weight: the default 1.0 and 0
VerifierWeights == {RInt(0), RInt(1)}
\* the scores a verifier of the multiplicative variant may return
VerifierScores == {RInt(0), Rat(1, 2), RInt(1)}

SeqSet(s) == {s[i] : i \in 1..Len(s)}

\* src/eva EVA.__init__: no argument is validated; no verifiers means one no-op
EVALogistic(nverifiers, threshold, alpha, beta, gamma, k_min, k_max, sim) ==
    [variant |-> "logistic", k_min |-> k_min, k_max |-> k_max,
     threshold |-> threshold, alpha |-> alpha, beta |-> beta, gamma |-> gamma,
     verifiers |-> IF nverifiers = 0 THEN <<"noop">>
                   ELSE [i \in 1..nverifiers |-> "custom"],
     sim |-> sim]

\* src/src/eva EVA.__init__: no argument is validated; verifiers are their weights
EVAMultiplicative(weights, threshold, k_min, k_max, sim) ==
    [variant |-> "multiplicative", k_min |-> k_min, k_max |-> k_max,
     threshold |-> threshold, alpha |-> RInt(1), beta |-> RInt(1), gamma |-> RInt(1),
     verifiers |-> weights, sim |-> sim]

\* the statements of EVA.run, in the order the code executes them
Order(variant) ==
    IF variant = "logistic"
    THEN <<"initial_sampling", "stability", "difficulty", "adaptive_resample",
           "verification", "reliability", "decision">>
    ELSE <<"difficulty", "initial_sampling", "stability",
           "verification", "reliability", "decision">>

\* faulty variant: the verification step falls through to the decision
NextPcSkipsReliability(variant, p) ==
    LET o == Order(variant)
        i == CHOOSE j \in 1..Len(o) : o[j] = p
    IN  IF i = Len(o) THEN "done"
        ELSE IF p = "verification" THEN "decision"
        ELSE o[i + 1]

NextPc(variant, p) ==
    LET o == Order(variant)
        i == CHOOSE j \in 1..Len(o) : o[j] = p
    IN  IF i = Len(o) THEN "done" ELSE o[i + 1]

Init ==
    /\ cfg \in {EVALogistic(n, th, al, be, ga, kmin, kmax, s) :
                    n \in 0..MaxVerifiers, th \in Thresholds, al \in ScorerWeights,
                    be \in ScorerWeights, ga \in ScorerWeights,
                    kmin \in 0..MaxK, kmax \in 0..MaxK, s \in Sims}
               \cup
               {EVAMultiplicative(w, th, kmin, kmax, s) :
                    w \in SeqsUpTo(VerifierWeights, MaxVerifiers), th \in Thresholds,
                    kmin \in 0..MaxK, kmax \in 0..MaxK, s \in Sims}
    /\ pc = Order(cfg.variant)[1]
    /\ outputs = <<>> /\ stability = RInt(0) /\ difficulty = RInt(0)
    /\ k = 0 /\ scores = <<>> /\ verification = RInt(0) /\ reliability = RInt(0)
    /\ result = <<>> /\ error = "none" /\ llm_calls = 0 /\ batch_ok = 0
    /\ returned = {} /\ steps = <<>>
    /\ fn = "none" /\ args = <<>> /\ ret = Pending

\* a step finished: on to the next statement
Advance(step) ==
    /\ pc' = NextPc(cfg.variant, step)
    /\ steps' = Append(steps, step)

\* a batch of n llm_fn calls that all return: the texts o
Generated(o) ==
    /\ llm_calls' = llm_calls + Len(o)
    /\ returned' = returned \cup SeqSet(o)
    /\ batch_ok' = Len(o)

\* the size of the batch of llm_fn calls the statement at pc makes
BatchSize ==
    CASE pc = "difficulty" ->
           IF cfg.variant = "logistic" THEN NPerturb ELSE samples
      [] pc = "initial_sampling" ->
           IF cfg.variant = "logistic" THEN cfg.k_min
           ELSE adaptive_k(Rat(1, 2), difficulty, cfg.k_min, cfg.k_max)
      [] pc = "adaptive_resample" ->
           adaptive_k_additive(stability, difficulty, cfg.k_min, cfg.k_max,
                               RInt(DefaultLam), RInt(DefaultMu)) - cfg.k_min
      [] OTHER -> 0

\* DifficultyEstimator.compute(prompt)
DifficultyStep ==
    /\ pc = "difficulty"
    /\ \E o \in SeqsOfLen(Texts, BatchSize) :
         /\ difficulty' = IF cfg.variant = "logistic"
                          THEN difficulty_perturbation(o, cfg.sim)
                          ELSE difficulty_repetition(o)
         /\ Generated(o)
    /\ Advance("difficulty")
    /\ UNCHANGED <<cfg, outputs, stability, k, scores, verification, reliability,
                   result, error, fnvars>>

\* outputs = [llm_fn(prompt) for _ in range(...)]
InitialSampling ==
    /\ pc = "initial_sampling"
    /\ \E o \in SeqsOfLen(Texts, Max(BatchSize, 0)) :
         /\ outputs' = o
         /\ Generated(o)
    /\ k' = IF cfg.variant = "logistic" THEN k ELSE BatchSize
    /\ Advance("initial_sampling")
    /\ UNCHANGED <<cfg, stability, difficulty, scores, verification, reliability,
                   result, error, fnvars>>

\* StabilityEstimator.compute(outputs)
StabilityStep ==
    /\ pc = "stability"
    /\ stability' = IF cfg.variant = "logistic"
                    THEN stability_mean(outputs, cfg.sim)
                    ELSE stability_entropy(outputs, cfg.sim)
    /\ Advance("stability")
    /\ UNCHANGED <<cfg, outputs, difficulty, k, scores, verification, reliability,
                   result, error, llm_calls, batch_ok, returned, fnvars>>

\* src/eva: k = adaptive_k(...); if k > k_min: extend outputs, recompute stability
AdaptiveResample ==
    /\ pc = "adaptive_resample"
    /\ k' = BatchSize + cfg.k_min
    /\ \/ /\ k' > cfg.k_min
          /\ \E o \in SeqsOfLen(Texts, BatchSize) :
               /\ outputs' = outputs \o o
               /\ Generated(o)
          /\ stability' = stability_mean(outputs', cfg.sim)
       \/ /\ ~(k' > cfg.k_min)
          /\ UNCHANGED <<outputs, stability, llm_calls, batch_ok, returned>>
    /\ Advance("adaptive_resample")
    /\ UNCHANGED <<cfg, difficulty, scores, verification, reliability,
                   result, error, fnvars>>

\* a call of llm_fn raises: the exception leaves run
LlmRaises ==
    /\ pc \in {"difficulty", "initial_sampling", "adaptive_resample"}
    /\ \E i \in 1..BatchSize :
         \E o \in SeqsOfLen(Texts, i - 1) :
           /\ llm_calls' = llm_calls + i
           /\ returned' = returned \cup SeqSet(o)
           /\ batch_ok' = i - 1
    /\ pc' = "raised"
    /\ error' = "LlmError"
    /\ UNCHANGED <<cfg, outputs, stability, difficulty, k, scores, verification,
                   reliability, result, steps, fnvars>>

\* the verdicts the configured verifiers may give on one output
VerdictRows ==
    {r \in SeqsOfLen(BOOLEAN, Len(cfg.verifiers)) :
        \A j \in 1..Len(r) : cfg.verifiers[j] = "noop" => r[j]}

\* the value or the exception of the verification step is stored
Verified(res) ==
    IF res.err = "none"
    THEN /\ verification' = res.val
         /\ error' = error
         /\ Advance("verification")
    ELSE /\ verification' = verification
         /\ error' = res.err
         /\ pc' = "raised"
         /\ steps' = steps

\* src/eva: self._verification_score(outputs)
\* src/src/eva: every verifier scores (prompt, outputs), then aggregate_verification
VerificationStep ==
    /\ pc = "verification"
    /\ \/ /\ cfg.variant = "logistic"
          /\ \E verdicts \in SeqsOfLen(VerdictRows, Len(outputs)) :
               Verified(verification_score(verdicts, Len(cfg.verifiers)))
          /\ scores' = scores
       \/ /\ cfg.variant = "multiplicative"
          /\ \E sc \in SeqsOfLen(VerifierScores, Len(cfg.verifiers)) :
               /\ scores' = sc
               /\ Verified(aggregate_verification(sc, cfg.verifiers))
    /\ UNCHANGED <<cfg, outputs, stability, difficulty, k, reliability, result,
                   llm_calls, batch_ok, returned, fnvars>>

\* compute_reliability(...)
ReliabilityStep ==
    /\ pc = "reliability"
    /\ reliability' = IF cfg.variant = "logistic"
                      THEN compute_reliability_logistic(stability, verification,
                               difficulty, cfg.alpha, cfg.beta, cfg.gamma)
                      ELSE compute_reliability(stability, verification, difficulty)
    /\ Advance("reliability")
    /\ UNCHANGED <<cfg, outputs, stability, difficulty, k, scores, verification,
                   result, error, llm_calls, batch_ok, returned, fnvars>>

\* the dictionary run returns
ResultDict ==
    IF cfg.variant = "logistic"
    THEN [accepted |-> RLe(cfg.threshold, reliability),
          reliability |-> reliability,
          stability |-> stability,
          verification |-> verification,
          difficulty |-> difficulty,
          samples_used |-> k,
          outputs |-> outputs]
    ELSE [prompt |-> "prompt",
          outputs |-> outputs,
          stability |-> stability,
          difficulty |-> difficulty,
          verification |-> verification,
          reliability |-> reliability,
          accepted |-> RLe(cfg.threshold, reliability)]

\* accepted = reliability >= threshold; return {...}
Decision ==
    /\ pc = "decision"
    /\ result' = <<ResultDict>>
    /\ Advance("decision")
    /\ UNCHANGED <<cfg, outputs, stability, difficulty, k, scores, verification,
                   reliability, error, llm_calls, batch_ok, returned, fnvars>>

Next ==
    \/ DifficultyStep
    \/ InitialSampling
    \/ StabilityStep
    \/ AdaptiveResample
    \/ LlmRaises
    \/ VerificationStep
    \/ ReliabilityStep
    \/ Decision

Spec == Init /\ [][Next]_vars

(* ============================== claims ================================ *)

\* the configurations the specified INIT validation would let through:
\* k_min <= k_max, threshold within [0,1], nonnegative weights
ValidConfig(c) ==
    /\ c.k_min <= c.k_max
    /\ RLe(RInt(0), c.threshold) /\ RLe(c.threshold, RInt(1))
    /\ RLe(RInt(0), c.alpha) /\ RLe(RInt(0), c.beta) /\ RLe(RInt(0), c.gamma)
    /\ c.variant = "multiplicative" =>
         \A i \in 1..Len(c.verifiers) : RLe(RInt(0), c.verifiers[i])

IsPrefix(s, t) == Len(s) <= Len(t) /\ s = SubSeq(t, 1, Len(s))
Returned == result # <<>>
SumWeights(c) == RSum(c.verifiers)

\* C1 (as claimed): every returned result has k_min <= samples_used <= k_max and
\* len(outputs) = samples_used, whatever (k_min, k_max) the constructor accepted.
\* The multiplicative variant returns no samples_used key: the number of outputs
\* stands for it there.
C1_SamplesWithinBounds ==
    Returned =>
        LET r == result[1]
            used == IF cfg.variant = "logistic" THEN r.samples_used ELSE Len(r.outputs)
        IN  /\ cfg.k_min <= used
            /\ used <= cfg.k_max
            /\ Len(r.outputs) = used

\* C2 (as claimed): the steps of every run follow difficulty -> initial sampling
\* -> stability -> (optional) adaptive resampling -> verification -> reliability
\* -> decision.
C2_SpecifiedOrder ==
    \/ IsPrefix(steps, <<"difficulty", "initial_sampling", "stability",
                         "adaptive_resample", "verification", "reliability", "decision">>)
    \/ IsPrefix(steps, <<"difficulty", "initial_sampling", "stability",
                         "verification", "reliability", "decision">>)

\* C2 (amended): each step runs at most once, in a fixed order that depends on the
\* variant. src/src/eva: difficulty -> initial sampling -> stability ->
\* verification -> reliability -> decision, so difficulty is known before the first
\* sample is drawn. src/eva: initial sampling -> stability -> difficulty ->
\* adaptive resampling -> verification -> reliability -> decision, so difficulty is
\* computed only after the first samples were drawn and stability first computed.
C2_StepOrder ==
    /\ cfg.variant = "multiplicative" =>
         /\ IsPrefix(steps, <<"difficulty", "initial_sampling", "stability",
                              "verification", "reliability", "decision">>)
         /\ outputs # <<>> => steps # <<>> /\ steps[1] = "difficulty"
    /\ cfg.variant = "logistic" =>
         /\ IsPrefix(steps, <<"initial_sampling", "stability", "difficulty",
                              "adaptive_resample", "verification", "reliability",
                              "decision">>)
         /\ Len(steps) >= 3 => steps[1] = "initial_sampling" /\ steps[2] = "stability"
    /\ \A i, j \in 1..Len(steps) : steps[i] = steps[j] => i = j
    /\ Returned <=> (steps # <<>> /\ steps[Len(steps)] = "decision")

\* C2 witness: a run of src/eva that drew extra samples and returned
C2_Witness ==
    /\ cfg.variant = "logistic"
    /\ pc = "done"
    /\ Len(outputs) > cfg.k_min
    /\ Len(steps) = 7

\* C3 (as claimed): an invalid configuration never reaches a generation call or a
\* result.
C3_InvalidConfigRejected ==
    ~ValidConfig(cfg) => llm_calls = 0 /\ result = <<>>

FnDone(f) == fn = f /\ ret.err # "pending"

\* C4 (as claimed): for k_min <= k_max both rules return k_min at S = 1, D = 0 and
\* k_max at S = 0, D = 1.
C4_BothRulesReachBounds ==
    (fn \in {"adaptive_k_additive", "adaptive_k"} /\ ret.err # "pending"
         /\ args.k_min <= args.k_max) =>
        /\ (args.S = RInt(1) /\ args.D = RInt(0)) => ret.val = args.k_min
        /\ (args.S = RInt(0) /\ args.D = RInt(1)) => ret.val = args.k_max

\* C4 (amended): for k_min <= k_max both rules return k_min at S = 1, D = 0; at
\* S = 0, D = 1 the canonical rule returns k_max and the additive rule returns
\* min(k_max, k_min + ceil(lam + mu)), which is k_max only when
\* ceil(lam + mu) >= k_max - k_min.
C4_BoundsAtExtremes ==
    (fn \in {"adaptive_k_additive", "adaptive_k"} /\ ret.err # "pending"
         /\ args.k_min <= args.k_max) =>
        /\ (args.S = RInt(1) /\ args.D = RInt(0)) => ret.val = args.k_min
        /\ (args.S = RInt(0) /\ args.D = RInt(1)) =>
             IF fn = "adaptive_k" THEN ret.val = args.k_max
             ELSE ret.val = Min(args.k_max,
                                args.k_min + RCeil(RAdd(args.lam, args.mu)))

\* C4 witness: the additive rule stops short of k_max at S = 0, D = 1
C4_Witness ==
    /\ FnDone("adaptive_k_additive")
    /\ args.S = RInt(0) /\ args.D = RInt(1)
    /\ args.k_min < args.k_max
    /\ args.k_min < ret.val /\ ret.val < args.k_max

\* sum of ss[i] * ws[i] over i in 1..n
RECURSIVE DotUpTo(_, _, _)
DotUpTo(ss, ws, n) ==
    IF n = 0 THEN RInt(0) ELSE RAdd(DotUpTo(ss, ws, n - 1), RMul(ss[n], ws[n]))

ZeroWeightVerifiers ==
    /\ cfg.variant = "multiplicative"
    /\ cfg.verifiers # <<>>
    /\ SumWeights(cfg) = RInt(0)

\* C6 (as claimed): with a nonempty verifier list whose weights sum to zero the
\* aggregation does not raise and V is 1.0.
C6_ZeroWeightsNeutral ==
    ZeroWeightVerifiers =>
        /\ error # "ZeroDivisionError"
        /\ "verification" \in SeqSet(steps) => verification = RInt(1)

\* C6 (amended): with a nonempty verifier list whose weights sum to zero the
\* verification step of EVA.run raises ZeroDivisionError out of
\* aggregate_verification: no V is computed and run returns no result.
C6_ZeroWeightsRaise ==
    /\ [](ZeroWeightVerifiers =>
            /\ result = <<>>
            /\ ~("verification" \in SeqSet(steps))
            /\ pc = "raised" => error \in {"LlmError", "ZeroDivisionError"})
    /\ [][(ZeroWeightVerifiers /\ pc = "verification") =>
            (pc' = "raised" /\ error' = "ZeroDivisionError")]_vars

\* C6 witness: the run ended in the division by the zero weight sum
C6_Witness ==
    /\ ZeroWeightVerifiers
    /\ pc = "raised"
    /\ error = "ZeroDivisionError"
    /\ Len(scores) = Len(cfg.verifiers)

\* the scorer applied by the state's call, at other arguments
Scored(S, V, D) ==
    IF fn = "compute_reliability" THEN compute_reliability(S, V, D)
    ELSE compute_reliability_logistic(S, V, D, args.alpha, args.beta, args.gamma)

\* C7: for the multiplicative scorer, and for the logistic scorer with alpha, beta,
\* gamma >= 0: raising S or V alone never lowers R, raising D alone never raises R
\* (S in [-1,1], V and D in [0,1]).
C7_Monotone ==
    ((FnDone("compute_reliability") \/ FnDone("compute_reliability_logistic"))
         /\ (fn = "compute_reliability_logistic" =>
                /\ RLe(RInt(0), args.alpha)
                /\ RLe(RInt(0), args.beta)
                /\ RLe(RInt(0), args.gamma))) =>
        /\ \A S2 \in GridS : RLe(args.S, S2) => RLe(ret.val, Scored(S2, args.V, args.D))
        /\ \A V2 \in Grid01 : RLe(args.V, V2) => RLe(ret.val, Scored(args.S, V2, args.D))
        /\ \A D2 \in Grid01 : RLe(args.D, D2) => RLe(Scored(args.S, args.V, D2), ret.val)

\* C7 witness: the logistic scorer strictly falls when D rises to 1
C7_Witness ==
    /\ FnDone("compute_reliability_logistic")
    /\ RLe(RInt(0), args.alpha) /\ RLe(RInt(0), args.beta) /\ RLt(RInt(0), args.gamma)
    /\ RLt(args.D, RInt(1))
    /\ RLt(Scored(args.S, args.V, RInt(1)), ret.val)

InUnit(x) == RLe(RInt(0), x) /\ RLe(x, RInt(1))

ConstantRun ==
    /\ Returned
    /\ cfg.variant = "multiplicative"
    /\ Cardinality(returned) = 1
    /\ Len(cfg.verifiers) = 1
    /\ scores = <<RInt(1)>>

\* C9 (as claimed): a constant generation function and one verifier scoring 1.0
\* give R = 1.0 and acceptance for every threshold <= 1.0.
C9_ConstantGivesOne ==
    ConstantRun =>
        /\ result[1].reliability = RInt(1)
        /\ RLe(cfg.threshold, RInt(1)) => result[1].accepted

\* C9 (amended): a constant generation function gives S = 1 and, by the repetition
\* estimate, D = 1/5 (one distinct output in five samples); with one verifier of
\* positive weight scoring 1.0, V = 1, R = 0.8, and the result is accepted exactly
\* when threshold <= 0.8.
C9_ConstantGivesFourFifths ==
    ConstantRun =>
        /\ result[1].stability = RInt(1)
        /\ result[1].difficulty = Rat(1, 5)
        /\ result[1].verification = RInt(1)
        /\ result[1].reliability = Rat(4, 5)
        /\ result[1].accepted <=> RLe(cfg.threshold, Rat(4, 5))

\* C9 witness: a constant run rejected at threshold 1.0
C9_Witness ==
    /\ ConstantRun
    /\ Len(outputs) >= 2
    /\ cfg.threshold = RInt(1)
    /\ ~result[1].accepted

\* C10 (as claimed): a failing generation call ends the run only when no call of
\* its batch succeeded.
C10_FailureDropsSample ==
    error = "LlmError" => batch_ok = 0

\* EVA.run of src/eva is past its resampling step: k_min initial samples, the
\* NPerturb calls of the difficulty estimate and the extra samples were requested
Resampled == cfg.variant = "logistic" /\ "adaptive_resample" \in SeqSet(steps)

\* C11 (as claimed): once the adaptive-resampling step of EVA.run is over, with
\* n = k_min samples drawn before it and k the value adaptive_k returned: if k > n
\* exactly k - n further generation calls were made and stability is the one of all
\* k outputs; if k <= n no further call was made, the outputs are the n initial ones
\* and stability is still theirs; hence the number of samples drawn equals the
\* reported samples_used (k) and never exceeds k_max.
C11_ResampleDrawsDifference ==
    Resampled =>
        LET n == cfg.k_min
        IN  /\ k > n => /\ llm_calls = n + NPerturb + (k - n)
                        /\ Len(outputs) = k
            /\ k <= n => /\ llm_calls = n + NPerturb
                         /\ Len(outputs) = n
            /\ stability = stability_mean(outputs, cfg.sim)
            /\ Len(outputs) = k
            /\ Len(outputs) <= cfg.k_max
            /\ Returned => result[1].samples_used = Len(result[1].outputs)

\* k_min + alpha * (k_max - k_min) with alpha = ((1 - S) + D) / 2, before rounding
CanonicalTarget(S, D, k_min, k_max) ==
    RAdd(RInt(k_min), RMul(RDiv(RAdd(RSub(RInt(1), S), D), RInt(2)),
                           RInt(k_max - k_min)))

\* C12 (as claimed): for S in [0,1], D in [0,1] and k_min <= k_max the canonical
\* rule returns k_min + alpha * (k_max - k_min) rounded to the nearest integer,
\* clamped to [k_min, k_max]: the target lies within the bounds there, so the
\* returned integer is within them and at most 1/2 away from the target, however
\* ties are broken.
C12_RoundsToNearest ==
    (FnDone("adaptive_k") /\ InUnit(args.S) /\ InUnit(args.D)
         /\ args.k_min <= args.k_max) =>
        LET x == CanonicalTarget(args.S, args.D, args.k_min, args.k_max)
            away == RSub(RInt(ret.val), x)
        IN  /\ args.k_min <= ret.val /\ ret.val <= args.k_max
            /\ RLe(RMul(RInt(2), away), RInt(1))
            /\ RLe(RInt(-1), RMul(RInt(2), away))

====
